---- MODULE Spec2Model ----
(***************************************************************************)
(* Model of backend/app/dynamoDB/table.py: the Group class, its index file *)
(* (groups.json) and the DynamoDB table it reads and writes.               *)
(*                                                                         *)
(* Every remote call (get_item, put_item, update_item, delete_item) and    *)
(* every access to the index file is one step of the calling process, so   *)
(* that concurrent callers interleave between the calls of one method.     *)
(***************************************************************************)
EXTENDS Integers, Sequences, FiniteSets, TLC

(* ---------------------------- bounds ----------------------------------- *)
\* number of uuid4() values the callers may draw
MaxIds == 4
\* longest todo list a member record may hold
MaxTodo == 3

\* the callers (each holds at most one Group object at a time)
Procs == {"p1", "p2"}

\* str(uuid.uuid4()): the n-th identifier drawn
IdStrings == <<"u1", "u2", "u3", "u4", "u5", "u6", "u7", "u8", "u9">>

VARIABLES
  table,    \* the DynamoDB table: composite key <<id, name>> -> item
  idx,      \* the Group Table File (groups.json): group name -> group id
  nextId,   \* how many uuid4() values have been drawn, plus one
  pc,       \* per caller: position inside the method it is executing
  obj,      \* per caller: its Group object (group_id, group_name)
  loc,      \* per caller: the arguments and locals of the running method
  result,   \* per caller: how the running method ended
  crashed,  \* callers that were stopped part-way and never resume
  calls     \* history: the add_user calls that have returned

vars == <<table, idx, nextId, pc, obj, loc, result, crashed, calls>>

(* ------------------------ DynamoDB items -------------------------------- *)
\* the attributes that make up the table's composite key
KeyAttrs == {"id", "name"}

EmptyMap == [a \in {} |-> ""]

KeyOf(item) == <<item["id"], item["name"]>>

\* an item that holds nothing but its key
KeyItem(k) == [a \in KeyAttrs |-> IF a = "id" THEN k[1] ELSE k[2]]

SetAttr(item, a, v) == [x \in (DOMAIN item) \cup {a} |-> IF x = a THEN v ELSE item[x]]

RemoveAttr(item, a) == [x \in (DOMAIN item) \ {a} |-> item[x]]

\* Table.put_item: insert or replace the whole item
PutItem(t, item) ==
  [k \in (DOMAIN t) \cup {KeyOf(item)} |-> IF k = KeyOf(item) THEN item ELSE t[k]]

\* Table.delete_item: delete by key, silently when the key is absent
DeleteItem(t, k) == [x \in (DOMAIN t) \ {k} |-> t[x]]

\* the item an update_item works on: the stored one, or a new key-only item
\* (update_item adds the item when it does not exist)
Target(t, k) == IF k \in DOMAIN t THEN t[k] ELSE KeyItem(k)

\* the group document create_group puts, and the member document add_user puts
GroupItem(id, name) == KeyItem(<<id, name>>)
MemberItem(id, name) == SetAttr(KeyItem(<<id, name>>), "todo", <<>>)

\* the members of a group document, one of them overlooked
AllButOne(item) ==
  IF (DOMAIN item) \ KeyAttrs = {} THEN {}
  ELSE ((DOMAIN item) \ KeyAttrs) \ {CHOOSE a \in (DOMAIN item) \ KeyAttrs : TRUE}

\* the members of a group document (every attribute but the key)
MembersOf(item) == (DOMAIN item) \ KeyAttrs

IsMemberRecord(item) == "todo" \in DOMAIN item
IsGroupRecord(item) == "todo" \notin DOMAIN item

(* ---------------------- update_item expressions ------------------------- *)
\* the update without its ConditionExpression
UpdateSetUnconditional(t, k, a, v) ==
  IF a \in KeyAttrs
    THEN [err |-> "ValidationException", table |-> t]
  ELSE [err |-> "", table |-> PutItem(t, SetAttr(Target(t, k), a, v))]

\* SET #name = :id with ConditionExpression attribute_not_exists(#name)
UpdateSetIfNotExists(t, k, a, v) ==
  IF a \in KeyAttrs
    THEN [err |-> "ValidationException", table |-> t]
  ELSE IF k \in DOMAIN t /\ a \in DOMAIN t[k]
    THEN [err |-> "ConditionalCheckFailedException", table |-> t]
  ELSE [err |-> "", table |-> PutItem(t, SetAttr(Target(t, k), a, v))]

\* an update that writes the document back with the attribute still in it
UpdateKeepAttr(t, k, a) ==
  IF a \in KeyAttrs
    THEN [err |-> "ValidationException", table |-> t]
  ELSE [err |-> "", table |-> PutItem(t, Target(t, k))]

\* REMOVE #name
UpdateRemoveAttr(t, k, a) ==
  IF a \in KeyAttrs
    THEN [err |-> "ValidationException", table |-> t]
  ELSE [err |-> "", table |-> PutItem(t, RemoveAttr(Target(t, k), a))]

\* SET todo = :item, the list replaced instead of extended
ListReplace(s, items) == items

\* list_append(todo, :item)
ListAppend(s, items) == s \o items

\* SET todo = list_append(todo, :item)
UpdateListAppend(t, k, items) ==
  IF k \notin DOMAIN t \/ "todo" \notin DOMAIN t[k]
    THEN [err |-> "ValidationException", table |-> t]
  ELSE [err |-> "", table |-> PutItem(t, SetAttr(t[k], "todo", ListAppend(t[k]["todo"], items)))]

Range(s) == {s[i] : i \in DOMAIN s}

\* the list left by REMOVE todo[i1], todo[i2], ...: every path addresses a
\* zero-based position of the list as it was before the update
RECURSIVE RemoveAt(_, _, _)
RemoveAt(s, positions, i) ==
  IF i > Len(s) THEN <<>>
  ELSE (IF (i - 1) \in positions THEN <<>> ELSE <<s[i]>>) \o RemoveAt(s, positions, i + 1)

\* the paths applied one after the other, each to the list the one before left
RECURSIVE RemoveOneByOne(_, _)
RemoveOneByOne(s, nums) ==
  IF nums = <<>> THEN s
  ELSE RemoveOneByOne(RemoveAt(s, {Head(nums)}, 1), Tail(nums))

RemoveIndices(s, nums) == RemoveAt(s, Range(nums), 1)

\* "REMOVE " + ", ".join("todo[{}]".format(num) ...)
UpdateRemoveIndices(t, k, nums) ==
  IF nums = <<>> \/ (\E i \in DOMAIN nums : nums[i] < 0)
       \/ Cardinality(Range(nums)) # Len(nums)
    THEN [err |-> "ValidationException", table |-> t]
  ELSE LET item == Target(t, k)
       IN [err |-> "",
           table |-> PutItem(t, IF "todo" \in DOMAIN item
                                  THEN SetAttr(item, "todo", RemoveIndices(item["todo"], nums))
                                  ELSE item)]

(* --------------------------- callers ------------------------------------ *)
NoObj == [id |-> "", name |-> ""]

NoLoc == [op |-> "", arg |-> "", uid |-> "", items |-> <<>>, nums |-> <<>>,
          ids |-> EmptyMap, members |-> {}, left |-> {}]

ObjKey(p) == <<obj[p].id, obj[p].name>>

NewId == IdStrings[nextId]

Init ==
  /\ table = [k \in {} |-> EmptyMap]
  /\ idx = EmptyMap
  /\ nextId = 1
  /\ pc = [p \in Procs |-> "idle"]
  /\ obj = [p \in Procs |-> NoObj]
  /\ loc = [p \in Procs |-> NoLoc]
  /\ result = [p \in Procs |-> ""]
  /\ crashed = {}
  /\ calls = {}

Live(p) == p \notin crashed

\* the method returns or raises: the caller sees the outcome
Finish(p, outcome) ==
  /\ pc' = [pc EXCEPT ![p] = "done"]
  /\ result' = [result EXCEPT ![p] = outcome]

\* the caller goes on after the call
Return(p) ==
  /\ Live(p) /\ pc[p] = "done"
  /\ pc' = [pc EXCEPT ![p] = "ready"]
  /\ loc' = [loc EXCEPT ![p] = NoLoc]
  /\ result' = [result EXCEPT ![p] = ""]
  /\ UNCHANGED <<table, idx, nextId, obj, crashed, calls>>

(* ------------------- Group(group_name): __init__ ------------------------ *)
\* the constructor with the index file written before the group document
ConstructIndexFirst(p, g) ==
  /\ Live(p) /\ pc[p] \in {"idle", "ready"}
  /\ IF g \in DOMAIN idx
       THEN /\ obj' = [obj EXCEPT ![p] = [id |-> idx[g], name |-> g]]
            /\ loc' = [loc EXCEPT ![p] = [NoLoc EXCEPT !.op = "Group", !.arg = g]]
            /\ Finish(p, "ok")
            /\ UNCHANGED <<nextId, idx>>
       ELSE /\ nextId <= MaxIds
            /\ loc' = [loc EXCEPT ![p] = [NoLoc EXCEPT !.op = "Group", !.arg = g,
                                            !.uid = NewId,
                                            !.ids = SetAttr(idx, g, NewId)]]
            /\ idx' = SetAttr(idx, g, NewId)
            /\ nextId' = nextId + 1
            /\ pc' = [pc EXCEPT ![p] = "cg_put"]
            /\ UNCHANGED <<obj, result>>
  /\ UNCHANGED <<table, crashed, calls>>

\* read_ids, then ids[group_name]; when absent create_group draws the id
Construct(p, g) ==
  /\ Live(p) /\ pc[p] \in {"idle", "ready"}
  /\ IF g \in DOMAIN idx
       THEN /\ obj' = [obj EXCEPT ![p] = [id |-> idx[g], name |-> g]]
            /\ loc' = [loc EXCEPT ![p] = [NoLoc EXCEPT !.op = "Group", !.arg = g]]
            /\ Finish(p, "ok")
            /\ UNCHANGED nextId
       ELSE /\ nextId <= MaxIds
            /\ loc' = [loc EXCEPT ![p] = [NoLoc EXCEPT !.op = "Group", !.arg = g,
                                            !.uid = NewId,
                                            !.ids = SetAttr(idx, g, NewId)]]
            /\ nextId' = nextId + 1
            /\ pc' = [pc EXCEPT ![p] = "cg_put"]
            /\ UNCHANGED <<obj, result>>
  /\ UNCHANGED <<table, idx, crashed, calls>>

\* a caller invokes create_group(group_name, ids) on its Group object, with
\* the ids it has just read from the Group Table File
CreateGroupCall(p, g) ==
  /\ Live(p) /\ pc[p] = "ready"
  /\ nextId <= MaxIds
  /\ loc' = [loc EXCEPT ![p] = [NoLoc EXCEPT !.op = "create_group", !.arg = g,
                                  !.uid = NewId,
                                  !.ids = SetAttr(idx, g, NewId)]]
  /\ nextId' = nextId + 1
  /\ pc' = [pc EXCEPT ![p] = "cg_put"]
  /\ UNCHANGED <<table, idx, obj, result, crashed, calls>>

\* create_group: put_item of the new group document
CreateGroupPut(p) ==
  /\ Live(p) /\ pc[p] = "cg_put"
  /\ table' = PutItem(table, GroupItem(loc[p].uid, loc[p].arg))
  /\ pc' = [pc EXCEPT ![p] = "cg_write"]
  /\ UNCHANGED <<idx, nextId, obj, loc, result, crashed, calls>>

\* create_group: write_ids, then return the id (__init__ stores it)
CreateGroupWrite(p) ==
  /\ Live(p) /\ pc[p] = "cg_write"
  /\ idx' = loc[p].ids
  /\ obj' = IF loc[p].op = "Group"
              THEN [obj EXCEPT ![p] = [id |-> loc[p].uid, name |-> loc[p].arg]]
              ELSE obj
  /\ Finish(p, "ok")
  /\ UNCHANGED <<table, nextId, loc, crashed, calls>>

(* ----------------------------- delete_group ---------------------------- *)
\* get_item of the group document; members = the (id, name) pairs of every
\* attribute but id and name; KeyError when the response has no Item
DeleteGroupGet(p) ==
  /\ Live(p) /\ pc[p] = "ready"
  /\ IF ObjKey(p) \in DOMAIN table
       THEN LET item == table[ObjKey(p)]
                members == {<<item[a], a>> : a \in MembersOf(item)}
            IN /\ loc' = [loc EXCEPT ![p] = [NoLoc EXCEPT !.op = "delete_group",
                                               !.members = members, !.left = members]]
               /\ pc' = [pc EXCEPT ![p] = "dg_member"]
               /\ UNCHANGED result
       ELSE /\ loc' = [loc EXCEPT ![p] = [NoLoc EXCEPT !.op = "delete_group"]]
            /\ Finish(p, "KeyError:Item")
  /\ UNCHANGED <<table, idx, nextId, obj, crashed, calls>>

\* for user_id, name in members: delete_item of one member document
DeleteGroupMember(p, m) ==
  /\ Live(p) /\ pc[p] = "dg_member"
  /\ m \in loc[p].left
  /\ table' = DeleteItem(table, m)
  /\ loc' = [loc EXCEPT ![p].left = @ \ {m}]
  /\ UNCHANGED <<idx, nextId, pc, obj, result, crashed, calls>>

\* delete_item of the group document
DeleteGroupRecord(p) ==
  /\ Live(p) /\ pc[p] = "dg_member"
  /\ loc[p].left = {}
  /\ table' = DeleteItem(table, ObjKey(p))
  /\ pc' = [pc EXCEPT ![p] = "dg_read"]
  /\ UNCHANGED <<idx, nextId, obj, loc, result, crashed, calls>>

\* ids = read_ids(...); del ids[self.group_name]
DeleteGroupRead(p) ==
  /\ Live(p) /\ pc[p] = "dg_read"
  /\ IF obj[p].name \in DOMAIN idx
       THEN /\ loc' = [loc EXCEPT ![p].ids = RemoveAttr(idx, obj[p].name)]
            /\ pc' = [pc EXCEPT ![p] = "dg_write"]
            /\ UNCHANGED result
       ELSE /\ Finish(p, "KeyError:ids")
            /\ UNCHANGED loc
  /\ UNCHANGED <<table, idx, nextId, obj, crashed, calls>>

\* write_ids(ids, ...)
DeleteGroupWrite(p) ==
  /\ Live(p) /\ pc[p] = "dg_write"
  /\ idx' = loc[p].ids
  /\ Finish(p, "ok")
  /\ UNCHANGED <<table, nextId, obj, loc, crashed, calls>>

(* ------------------------------- add_user ------------------------------- *)
\* id_ = uuid4(); conditional update_item of the group document; any
\* exception of the update is turned into MemberExistsException
AddUserUpdate(p, m) ==
  /\ Live(p) /\ pc[p] = "ready"
  /\ nextId <= MaxIds
  /\ nextId' = nextId + 1
  /\ loc' = [loc EXCEPT ![p] = [NoLoc EXCEPT !.op = "add_user", !.arg = m, !.uid = NewId]]
  /\ LET r == UpdateSetIfNotExists(table, ObjKey(p), m, NewId)
     IN IF r.err # ""
          THEN /\ Finish(p, "MemberExistsException")
               /\ UNCHANGED table
          ELSE /\ table' = r.table
               /\ pc' = [pc EXCEPT ![p] = "au_put"]
               /\ UNCHANGED result
  /\ UNCHANGED <<idx, obj, crashed>>

\* put_item of the member document {id, name, todo: []}
AddUserPut(p) ==
  /\ Live(p) /\ pc[p] = "au_put"
  /\ table' = PutItem(table, MemberItem(loc[p].uid, loc[p].arg))
  /\ Finish(p, "ok")
  /\ UNCHANGED <<idx, nextId, obj, loc, crashed>>

(* --------- resolving a user name: group["Item"][username] --------------- *)
\* get_item of the group document and the lookup of the name in it; a
\* missing Item or a missing attribute raises inside the try block
Resolves(p, m) == ObjKey(p) \in DOMAIN table /\ m \in DOMAIN table[ObjKey(p)]

ResolveUser(p, m, args, next) ==
  /\ Live(p) /\ pc[p] = "ready"
  /\ IF Resolves(p, m)
       THEN /\ loc' = [loc EXCEPT ![p] = [args EXCEPT !.arg = m, !.uid = table[ObjKey(p)][m]]]
            /\ pc' = [pc EXCEPT ![p] = next]
            /\ UNCHANGED result
       ELSE /\ loc' = [loc EXCEPT ![p] = [args EXCEPT !.arg = m]]
            /\ Finish(p, "MemberDoesNotExistsException")
  /\ UNCHANGED <<table, idx, nextId, obj, crashed, calls>>

\* the outcome of an update_item whose exceptions the method does not catch
Outcome(r) == IF r.err = "" THEN "ok" ELSE "ClientError"

(* ------------------------------ remove_user ----------------------------- *)
RemoveUserGet(p, m) ==
  ResolveUser(p, m, [NoLoc EXCEPT !.op = "remove_user"], "ru_delete")

\* delete_item of the member document
RemoveUserDelete(p) ==
  /\ Live(p) /\ pc[p] = "ru_delete"
  /\ table' = DeleteItem(table, <<loc[p].uid, loc[p].arg>>)
  /\ pc' = [pc EXCEPT ![p] = "ru_update"]
  /\ UNCHANGED <<idx, nextId, obj, loc, result, crashed, calls>>

\* update_item REMOVE #name on the group document
RemoveUserUpdate(p) ==
  /\ Live(p) /\ pc[p] = "ru_update"
  /\ LET r == UpdateRemoveAttr(table, ObjKey(p), loc[p].arg)
     IN /\ table' = r.table
        /\ Finish(p, Outcome(r))
  /\ UNCHANGED <<idx, nextId, obj, loc, crashed, calls>>

(* ------------------------------- add_items ------------------------------ *)
\* the todo list a resolved member document holds, if there is one
TodoOf(t, k) == IF k \in DOMAIN t /\ "todo" \in DOMAIN t[k] THEN t[k]["todo"] ELSE <<>>

AddItemsGet(p, m, items) ==
  /\ Resolves(p, m) =>
       Len(TodoOf(table, <<table[ObjKey(p)][m], m>>)) + Len(items) <= MaxTodo
  /\ ResolveUser(p, m, [NoLoc EXCEPT !.op = "add_items", !.items = items], "ai_update")

\* update_item SET todo = list_append(todo, :item) on the member document
AddItemsUpdate(p) ==
  /\ Live(p) /\ pc[p] = "ai_update"
  /\ LET r == UpdateListAppend(table, <<loc[p].uid, loc[p].arg>>, loc[p].items)
     IN /\ table' = r.table
        /\ Finish(p, Outcome(r))
  /\ UNCHANGED <<idx, nextId, obj, loc, crashed, calls>>

(* ------------------------------ remove_items ---------------------------- *)
RemoveItemsGet(p, m, nums) ==
  ResolveUser(p, m, [NoLoc EXCEPT !.op = "remove_items", !.nums = nums], "ri_update")

\* update_item REMOVE todo[i], todo[j], ... on the member document
RemoveItemsUpdate(p) ==
  /\ Live(p) /\ pc[p] = "ri_update"
  /\ LET r == UpdateRemoveIndices(table, <<loc[p].uid, loc[p].arg>>, loc[p].nums)
     IN /\ table' = r.table
        /\ Finish(p, Outcome(r))
  /\ UNCHANGED <<idx, nextId, obj, loc, crashed, calls>>

(* ------------------------- a caller is stopped -------------------------- *)
\* the process dies between two calls of a method and never resumes
Crash(p) ==
  /\ Live(p) /\ pc[p] \notin {"idle", "ready", "done"}
  /\ crashed' = crashed \cup {p}
  /\ UNCHANGED <<table, idx, nextId, pc, obj, loc, result, calls>>

(* ------------------------------ inputs ---------------------------------- *)
GroupNames == {"A", "id"}
UserNames == {"x", "y", "id"}
ItemLists == {<<"a">>, <<"a", "b">>}
TodoLists == {<<"a", "b">>, <<"c">>}
IndexLists == {<<0>>, <<1>>, <<0, 1, 2>>, <<2, 0>>, <<3>>, <<1, 1>>, <<>>, <<-1>>}

\* one caller at a time: p may enter a method only while no other live
\* caller is inside one
Turn(p) == \A q \in Procs \ {p} : q \in crashed \/ pc[q] \in {"idle", "ready"}

\* history: the add_user calls that return in this step
Returned == {q \in Procs : pc[q] # "done" /\ pc'[q] = "done" /\ loc'[q].op = "add_user"}

RecordCalls ==
  calls' = calls \cup {[key |-> ObjKey(q), name |-> loc'[q].arg, id |-> loc'[q].uid,
                        outcome |-> result'[q]] : q \in Returned}

(* ---- group lifecycle and membership, one caller at a time ---- *)
NextGroups ==
  \/ \E p \in Procs, g \in GroupNames : Turn(p) /\ Construct(p, g)
  \/ \E p \in Procs, g \in GroupNames : Turn(p) /\ CreateGroupCall(p, g)
  \/ \E p \in Procs : Turn(p) /\ DeleteGroupGet(p)
  \/ \E p \in Procs, m \in {"x", "y"} : Turn(p) /\ AddUserUpdate(p, m) /\ UNCHANGED calls
  \/ \E p \in Procs, m \in {"x", "y"} : Turn(p) /\ RemoveUserGet(p, m)
  \/ \E p \in Procs : CreateGroupPut(p)
  \/ \E p \in Procs : CreateGroupWrite(p)
  \/ \E p \in Procs : \E m \in loc[p].left : DeleteGroupMember(p, m)
  \/ \E p \in Procs : DeleteGroupRecord(p)
  \/ \E p \in Procs : DeleteGroupRead(p)
  \/ \E p \in Procs : DeleteGroupWrite(p)
  \/ \E p \in Procs : AddUserPut(p) /\ UNCHANGED calls
  \/ \E p \in Procs : RemoveUserDelete(p)
  \/ \E p \in Procs : RemoveUserUpdate(p)
  \/ \E p \in Procs : Return(p)

SpecGroups == Init /\ [][NextGroups]_vars

(* ---- creation, deletion and re-use of a group, one caller at a time ---- *)
NextLife ==
  \/ \E p \in Procs, g \in {"A", "B"} : Turn(p) /\ Construct(p, g)
  \/ \E p \in Procs : Turn(p) /\ DeleteGroupGet(p)
  \/ \E p \in Procs : Turn(p) /\ AddUserUpdate(p, "x") /\ UNCHANGED calls
  \/ \E p \in Procs : Turn(p) /\ RemoveUserGet(p, "x")
  \/ \E p \in Procs : Turn(p) /\ AddItemsGet(p, "x", <<"a", "b">>)
  \/ \E p \in Procs : Turn(p) /\ RemoveItemsGet(p, "x", <<0>>)
  \/ \E p \in Procs : CreateGroupPut(p)
  \/ \E p \in Procs : CreateGroupWrite(p)
  \/ \E p \in Procs : \E m \in loc[p].left : DeleteGroupMember(p, m)
  \/ \E p \in Procs : DeleteGroupRecord(p)
  \/ \E p \in Procs : DeleteGroupRead(p)
  \/ \E p \in Procs : DeleteGroupWrite(p)
  \/ \E p \in Procs : AddUserPut(p) /\ UNCHANGED calls
  \/ \E p \in Procs : RemoveUserDelete(p)
  \/ \E p \in Procs : RemoveUserUpdate(p)
  \/ \E p \in Procs : AddItemsUpdate(p)
  \/ \E p \in Procs : RemoveItemsUpdate(p)
  \/ \E p \in Procs : Return(p)

SpecLife == Init /\ [][NextLife]_vars

(* ---- members and their todo lists, a single caller ---- *)
Caller == "p1"

NextMembers ==
  \/ Construct(Caller, "id")
  \/ DeleteGroupGet(Caller)
  \/ \E m \in {"x", "y"} : AddUserUpdate(Caller, m) /\ UNCHANGED calls
  \/ \E m \in UserNames : RemoveUserGet(Caller, m)
  \/ \E m \in UserNames : AddItemsGet(Caller, m, <<"a", "b">>)
  \/ \E m \in UserNames : RemoveItemsGet(Caller, m, <<0>>)
  \/ CreateGroupPut(Caller)
  \/ CreateGroupWrite(Caller)
  \/ \E m \in loc[Caller].left : DeleteGroupMember(Caller, m)
  \/ DeleteGroupRecord(Caller)
  \/ DeleteGroupRead(Caller)
  \/ DeleteGroupWrite(Caller)
  \/ AddUserPut(Caller) /\ UNCHANGED calls
  \/ RemoveUserDelete(Caller)
  \/ RemoveUserUpdate(Caller)
  \/ AddItemsUpdate(Caller)
  \/ RemoveItemsUpdate(Caller)
  \/ Return(Caller)

SpecMembers == Init /\ [][NextMembers]_vars

(* ---- one member's todo list, a single caller ---- *)
NextTodo ==
  \/ Construct(Caller, "A")
  \/ AddUserUpdate(Caller, "x") /\ UNCHANGED calls
  \/ \E items \in TodoLists : AddItemsGet(Caller, "x", items)
  \/ \E nums \in IndexLists : RemoveItemsGet(Caller, "x", nums)
  \/ CreateGroupPut(Caller)
  \/ CreateGroupWrite(Caller)
  \/ AddUserPut(Caller) /\ UNCHANGED calls
  \/ AddItemsUpdate(Caller)
  \/ RemoveItemsUpdate(Caller)
  \/ Return(Caller)

SpecTodo == Init /\ [][NextTodo]_vars

(* ---- concurrent callers adding members and items ---- *)
NextConc ==
  \/ \E p \in Procs : Construct(p, "A")
  \/ \E p \in Procs, m \in UserNames : AddUserUpdate(p, m) /\ RecordCalls
  \/ \E p \in Procs, items \in ItemLists : AddItemsGet(p, "x", items)
  \/ \E p \in Procs : CreateGroupPut(p)
  \/ \E p \in Procs : CreateGroupWrite(p)
  \/ \E p \in Procs : AddUserPut(p) /\ RecordCalls
  \/ \E p \in Procs : AddItemsUpdate(p)
  \/ \E p \in Procs : Return(p)

SpecConc == Init /\ [][NextConc]_vars

(* ---- group creation and deletion by callers that may be stopped ---- *)
NextCrash ==
  \/ \E p \in Procs, g \in GroupNames : Turn(p) /\ Construct(p, g)
  \/ \E p \in Procs, g \in GroupNames : Turn(p) /\ CreateGroupCall(p, g)
  \/ \E p \in Procs : Turn(p) /\ DeleteGroupGet(p)
  \/ \E p \in Procs : Turn(p) /\ AddUserUpdate(p, "x") /\ UNCHANGED calls
  \/ \E p \in Procs : CreateGroupPut(p)
  \/ \E p \in Procs : CreateGroupWrite(p)
  \/ \E p \in Procs : \E m \in loc[p].left : DeleteGroupMember(p, m)
  \/ \E p \in Procs : DeleteGroupRecord(p)
  \/ \E p \in Procs : DeleteGroupRead(p)
  \/ \E p \in Procs : DeleteGroupWrite(p)
  \/ \E p \in Procs : AddUserPut(p) /\ UNCHANGED calls
  \/ \E p \in Procs : Return(p)
  \/ \E p \in Procs : Crash(p)

SpecCrash == Init /\ [][NextCrash]_vars

(* ======================= properties of add_user ========================= *)
\* the add_user(m) calls on the group document k that have returned
CallsOn(k, m) == {c \in calls : c.key = k /\ c.name = m}

\* an add_user(m) on k that has updated the group document and not yet
\* written the member document
InFlight(k, m) ==
  \E p \in Procs : pc[p] = "au_put" /\ ObjKey(p) = k /\ loc[p].arg = m

CalledPairs == {<<c.key, c.name>> : c \in calls}

Appends(p) == pc[p] = "ai_update" /\ pc'[p] = "done"

MemberKey(p) == <<loc[p].uid, loc[p].arg>>

HasTodo(t, k) == k \in DOMAIN t /\ "todo" \in DOMAIN t[k]

\* C6: add_items(m, i1, ..., ik) turns m's todo sequence s into s followed by
\* i1, ..., ik in the given order, duplicates kept, the other attributes and
\* every other document unchanged; a todo sequence changes in no other way,
\* so after any series of calls, concurrent ones included, it is the
\* concatenation of the calls' lists in the order the updates were applied.
C6_AppendStep ==
  /\ \A p \in Procs :
       (Appends(p) /\ HasTodo(table, MemberKey(p))) =>
         /\ result'[p] = "ok"
         /\ DOMAIN table' = DOMAIN table
         /\ table'[MemberKey(p)]["todo"] = table[MemberKey(p)]["todo"] \o loc[p].items
         /\ DOMAIN table'[MemberKey(p)] = DOMAIN table[MemberKey(p)]
         /\ \A a \in (DOMAIN table[MemberKey(p)]) \ {"todo"} :
              table'[MemberKey(p)][a] = table[MemberKey(p)][a]
         /\ \A k \in (DOMAIN table) \ {MemberKey(p)} : table'[k] = table[k]
  /\ \A k \in DOMAIN table :
       (HasTodo(table, k) /\ (~HasTodo(table', k) \/ table'[k]["todo"] # table[k]["todo"])) =>
         \E p \in Procs : Appends(p) /\ MemberKey(p) = k

C6_AddItems == [][C6_AppendStep]_vars

\* two callers append to the same member concurrently: one has returned, the
\* other has resolved the member and not yet appended
C6_Witness ==
  \E p, q \in Procs :
    /\ p # q
    /\ pc[p] = "done" /\ loc[p].op = "add_items" /\ result[p] = "ok"
    /\ pc[q] = "ai_update" /\ MemberKey(q) = MemberKey(p)
    /\ HasTodo(table, MemberKey(p))
    /\ table[MemberKey(p)]["todo"] = <<"a", "a", "b">>

(* ================ properties of the member operations =================== *)
\* the caller p has just ended the call op
Ended(p, op) == pc[p] = "done" /\ loc[p].op = op

\* m is a member of the group of p's Group object
IsMember(p, m) == ObjKey(p) \in DOMAIN table /\ m \in MembersOf(table[ObjKey(p)])

\* every document but those under the keys ks is the same after the step
OnlyTouches(ks) ==
  /\ (DOMAIN table) \ ks = (DOMAIN table') \ ks
  /\ \A k \in (DOMAIN table) \ ks : table'[k] = table[k]

\* the two writes of remove_user(m) by p: the member document goes and
\* nothing else changes; then the attribute m goes from the group document
\* and nothing else changes
C2_RemoveSteps ==
  \A p \in Procs :
    /\ (pc[p] = "ru_delete" /\ pc'[p] = "ru_update" /\ loc[p].arg \notin KeyAttrs) =>
         /\ MemberKey(p) \notin DOMAIN table'
         /\ OnlyTouches({MemberKey(p)})
         /\ idx' = idx
    /\ (pc[p] = "ru_update" /\ pc'[p] = "done" /\ loc[p].arg \notin KeyAttrs) =>
         /\ result'[p] = "ok"
         /\ OnlyTouches({ObjKey(p)})
         /\ ObjKey(p) \in DOMAIN table'
         /\ DOMAIN table'[ObjKey(p)] = (DOMAIN table[ObjKey(p)]) \ {loc[p].arg}
         /\ \A a \in DOMAIN table'[ObjKey(p)] : table'[ObjKey(p)][a] = table[ObjKey(p)][a]
         /\ idx' = idx

\* the table a following add_user(m) by p leaves, computed as add_user does
AfterAddUser(p, m) ==
  PutItem(UpdateSetIfNotExists(table, ObjKey(p), m, NewId).table, MemberItem(NewId, m))

\* the state in which remove_user(m) on a member m returns
C2_RemovePost ==
  \A p \in Procs :
    (Ended(p, "remove_user") /\ loc[p].uid # "" /\ loc[p].arg \notin KeyAttrs) =>
      /\ result[p] = "ok"
      /\ MemberKey(p) \notin DOMAIN table
      /\ ~IsMember(p, loc[p].arg)
      /\ UpdateSetIfNotExists(table, ObjKey(p), loc[p].arg, NewId).err = ""
      /\ <<NewId, loc[p].arg>> \notin DOMAIN table
      /\ AfterAddUser(p, loc[p].arg)[ObjKey(p)][loc[p].arg] = NewId
      /\ AfterAddUser(p, loc[p].arg)[<<NewId, loc[p].arg>>]["todo"] = <<>>

\* C2: remove_user(m) on a group G of which m is a member deletes m's member
\* document and removes the attribute m from G's document, every other
\* member's reference and document staying as they were, so that a following
\* add_user(m) on G succeeds and creates a new member document with an empty
\* todo list.
C2_RemoveUser == [](C2_RemovePost) /\ [][C2_RemoveSteps]_vars

\* remove_user("x") has returned on a group that keeps its member "y", whose
\* todo list is not empty, and a further identifier can still be drawn
C2_Witness ==
  \E p \in Procs :
    /\ Ended(p, "remove_user") /\ loc[p].arg = "x" /\ result[p] = "ok"
    /\ IsMember(p, "y")
    /\ HasTodo(table, <<table[ObjKey(p)]["y"], "y">>)
    /\ table[<<table[ObjKey(p)]["y"], "y">>]["todo"] # <<>>
    /\ nextId <= MaxIds

\* what p is about to call in this step, with a name that is not a member
CallsWithNonMember(p) ==
  /\ pc[p] = "ready" /\ pc'[p] # "ready"
  /\ loc'[p].op \in {"remove_user", "add_items", "remove_items"}
  /\ ~IsMember(p, loc'[p].arg)

\* C8: remove_user, add_items and remove_items called with a name that is
\* not a member of G signal MemberDoesNotExistsException and leave the
\* table and the index file unchanged.
C8_NonMemberRejected ==
  [][\A p \in Procs :
       CallsWithNonMember(p) =>
         /\ pc'[p] = "done"
         /\ result'[p] = "MemberDoesNotExistsException"
         /\ table' = table
         /\ idx' = idx]_vars

\* no caller is inside a method
Quiescent == \A p \in Procs : pc[p] \in {"idle", "ready", "done"}

GroupKeys == {k \in DOMAIN table : IsGroupRecord(table[k])}

MemberKeys == {k \in DOMAIN table : IsMemberRecord(table[k])}

\* the group documents that refer to the member document k
Referrers(k) == {g \in GroupKeys : k[2] \in MembersOf(table[g]) /\ table[g][k[2]] = k[1]}

ReferentialIntegrity ==
  /\ \A g \in GroupKeys : \A m \in MembersOf(table[g]) : <<table[g][m], m>> \in MemberKeys
  /\ \A k \in MemberKeys : Cardinality(Referrers(k)) = 1

\* C10: after any sequence of operations run to completion one at a time by
\* a single caller, every member attribute of every group document is the id
\* of an existing member document, and every member document is referenced
\* by exactly one group document.
C10_Integrity == Quiescent => ReferentialIntegrity

(* ==================== properties of delete_group ======================== *)
\* delete_group by p lists every member of the group document; its steps
\* delete nothing but the member documents listed and the group document,
\* and change no other document; the index file loses nothing but the
\* group's name
C3_DeleteSteps ==
  \A p \in Procs :
    /\ (pc[p] = "ready" /\ pc'[p] = "dg_member") =>
         loc'[p].members = {<<table[ObjKey(p)][a], a>> :
                              a \in (DOMAIN table[ObjKey(p)]) \ {"id", "name"}}
    /\ (pc[p] \in {"dg_member", "dg_read", "dg_write"} /\ p \notin crashed) =>
      /\ DOMAIN table' \subseteq DOMAIN table
      /\ (DOMAIN table) \ (DOMAIN table') \subseteq loc[p].members \cup {ObjKey(p)}
      /\ \A k \in DOMAIN table' : table'[k] = table[k]
      /\ DOMAIN idx' \subseteq DOMAIN idx
      /\ (DOMAIN idx) \ (DOMAIN idx') \subseteq {obj[p].name}
      /\ \A g \in DOMAIN idx' : idx'[g] = idx[g]

\* the identifiers in use anywhere
UsedIds ==
  {k[1] : k \in DOMAIN table} \cup {idx[g] : g \in DOMAIN idx} \cup {obj[p].id : p \in Procs}

\* the state in which delete_group returns, having found the group document
C3_DeletePost ==
  \A p \in Procs :
    (Ended(p, "delete_group") /\ result[p] # "KeyError:Item") =>
      /\ ObjKey(p) \notin DOMAIN table
      /\ \A m \in loc[p].members : m \notin DOMAIN table
      /\ obj[p].name \notin DOMAIN idx
      /\ NewId \notin UsedIds

\* a group is created in this step: the name was not in the index file
\* and the identifier drawn is one no group or member ever had
C3_CreateFresh ==
  \A p \in Procs :
    (pc[p] \in {"idle", "ready"} /\ pc'[p] = "cg_put" /\ loc'[p].op = "Group") =>
      /\ loc'[p].arg \notin DOMAIN idx
      /\ loc'[p].uid \notin UsedIds

\* C3: delete_group() on a group G with any set of members removes G's group
\* document and the member document of every member from the table and G's
\* name from the index file, and leaves the documents of other groups
\* untouched; a following creation of a group with that name succeeds and
\* draws a new identifier, different from the deleted one.
C3_DeleteGroup == [](C3_DeletePost) /\ [][C3_DeleteSteps /\ C3_CreateFresh]_vars

\* delete_group has returned for a group of two members while another
\* group's document is in the table
C3_Witness ==
  \E p \in Procs :
    /\ Ended(p, "delete_group") /\ result[p] = "ok"
    /\ Cardinality(loc[p].members) = 2
    /\ \E k \in GroupKeys : k[2] # obj[p].name

(* ==================== properties of create_group ======================== *)
\* p calls create_group(g, ids) in this step while g is in the index file
CreatesAgain(p) ==
  /\ pc[p] = "ready" /\ pc'[p] # "ready"
  /\ loc'[p].op = "create_group"
  /\ loc'[p].arg \in DOMAIN idx

\* C4: create_group(g) for a new name g leaves exactly one identifier for g
\* in the index file, which stays the same on every later lookup; calling
\* create_group(g) again while g is in the index file signals the
\* group-already-exists failure and changes neither index file nor table.
C4_CreateOnce ==
  [][/\ \A g \in (DOMAIN idx) \cap (DOMAIN idx') : idx'[g] = idx[g]
     /\ \A p \in Procs :
          CreatesAgain(p) =>
            /\ pc'[p] = "done"
            /\ result'[p] = "GroupExistsException"
            /\ table' = table
            /\ idx' = idx]_vars

(* ================= the index file against the table ===================== *)
NoCreateOrDeleteUnderWay ==
  \A p \in Procs : pc[p] \notin {"cg_put", "cg_write", "dg_member", "dg_read", "dg_write"}

\* C5: whenever no group creation and no delete_group is part-way through,
\* the group names of the index file are exactly the group documents of the
\* table, each under the identifier the index file gives.
C5_IndexInSync ==
  NoCreateOrDeleteUnderWay => GroupKeys = {<<idx[g], g>> : g \in DOMAIN idx}

\* C9 as stated: wherever a create or a delete is stopped, every name of the
\* index file has its group document in the table.
C9_NoDanglingName == \A g \in DOMAIN idx : <<idx[g], g>> \in DOMAIN table

\* a delete_group of the group document k has deleted it and has not yet
\* rewritten the index file (it may have been stopped there)
DeletedNotUnindexed(k) ==
  \E p \in Procs : pc[p] \in {"dg_read", "dg_write"} /\ ObjKey(p) = k

\* C9, amended: creation writes the group document before the index file,
\* so a stopped creation leaves at worst a document without index entry;
\* a name of the index file is without its document only where a
\* delete_group has deleted the document and not yet rewritten the index.
C9_DanglingOnlyByDelete ==
  \A g \in DOMAIN idx :
    <<idx[g], g>> \in DOMAIN table \/ DeletedNotUnindexed(<<idx[g], g>>)

\* a delete_group was stopped after deleting the group document: the index
\* file still names the group; and a creation was stopped after its
\* put_item: its document has no index entry
C9_Witness ==
  /\ \E p \in crashed :
       /\ pc[p] = "dg_read"
       /\ obj[p].name \in DOMAIN idx /\ idx[obj[p].name] = obj[p].id
       /\ ObjKey(p) \notin DOMAIN table
  /\ \E q \in crashed :
       /\ pc[q] = "cg_write"
       /\ <<loc[q].uid, loc[q].arg>> \in DOMAIN table
       /\ loc[q].arg \notin DOMAIN idx

(* ==================== properties of remove_items ======================== *)
\* the positions (counted from 1) of s that the zero-based indices nums
\* leave in place
Kept(s, nums) == {i \in 1..Len(s) : (i - 1) \notin Range(nums)}

\* r is s without the elements at the positions nums, the rest in order
IsRemoval(r, s, nums) ==
  /\ Len(r) = Cardinality(Kept(s, nums))
  /\ \A i \in Kept(s, nums) : r[Cardinality({j \in Kept(s, nums) : j <= i})] = s[i]

DistinctNonNegative(nums) ==
  /\ nums # <<>>
  /\ \A i \in DOMAIN nums : nums[i] >= 0
  /\ Cardinality(Range(nums)) = Len(nums)

C7_RemoveStep ==
  \A p \in Procs :
    (/\ pc[p] = "ri_update" /\ pc'[p] = "done"
     /\ HasTodo(table, MemberKey(p))
     /\ DistinctNonNegative(loc[p].nums)) =>
      /\ result'[p] = "ok"
      /\ HasTodo(table', MemberKey(p))
      /\ IsRemoval(table'[MemberKey(p)]["todo"], table[MemberKey(p)]["todo"], loc[p].nums)
      /\ OnlyTouches({MemberKey(p)})

\* C7: remove_items(m, indices...) with distinct non-negative indices yields
\* m's todo sequence without the elements at exactly those zero-based
\* positions of the original sequence, the others keeping their order; an
\* index at or beyond the length removes nothing and raises no error.
C7_RemoveItems == [][C7_RemoveStep]_vars

\* remove_items(m, 2, 0) has returned and has left the second item alone
C7_Witness ==
  /\ Ended(Caller, "remove_items") /\ result[Caller] = "ok"
  /\ loc[Caller].nums = <<2, 0>>
  /\ HasTodo(table, MemberKey(Caller))
  /\ table[MemberKey(Caller)]["todo"] = <<"b">>

====
